---- MODULE Spec2Model ----
(***************************************************************************)
(* The diagram stream flow of the useDiagram hook                          *)
(* (src/frontend/hooks/useDiagram.ts): generateDiagram issues the request, *)
(* processStream reads the body chunk by chunk, splits every chunk on      *)
(* newlines and applies each `data:` line to the React state `state` and   *)
(* to the closure buffers explanation / mapping / diagram.                 *)
(*                                                                         *)
(* Strings are TLA+ strings; the JavaScript value undefined is the         *)
(* sentinel Undefined.  The body of the response is revealed as it is      *)
(* consumed: every step of the loop over the lines of a chunk draws the    *)
(* next segment `chunk.split('\n')` can yield at the current position of   *)
(* the stream.                                                             *)
(***************************************************************************)
EXTENDS Integers, Sequences, FiniteSets, TLC

VARIABLES
    pc,          \* position of generateDiagram / processStream: idle, fetching,
                 \* reading, lines, settled (returned), caught (catch ran)
    state,       \* useState<StreamState>: the session the caller observes
    locals,      \* the closure buffers `let explanation, mapping, diagram`
    loading,     \* useState<boolean>(true)
    locked,      \* the reader obtained by getReader() still holds its lock
    pos,         \* where in the byte stream the last read ended
    parseErrors, \* number of console.error('Error parsing SSE message') calls
    nLines,      \* number of loop iterations of `for (const line of lines)`
    last,        \* the segment the last loop iteration looked at
    sent,        \* per buffer: chunks of the chunk frames fully delivered
    aligned,     \* every read so far ended on a line boundary
    clean,       \* no delivered frame had an error field or status complete
    pure,        \* every delivered line was a chunk frame carrying a chunk
    run,         \* per run of getDiagram: its position and closure buffers
    hook,        \* useDiagram: diagram, error, and the cacheDiagram effect
    page,        \* per instance of the wiki page component: its state and refs
    input,       \* the text handed to parseRepoInput, a sequence of characters
    parsed,      \* what parseRepoInput returned for it
    ask          \* the Ask component: its state and its requests

streamVars == <<pc, locals, locked, pos, parseErrors, nLines, last, sent,
                aligned, clean, pure>>

hookVars == <<run, hook>>

wikiVars == <<page>>

formVars == <<input, parsed, ask>>

vars == <<pc, state, locals, loading, locked, pos, parseErrors, nLines, last,
          sent, aligned, clean, pure, run, hook, page, input, parsed, ask>>

\* Number of line segments one stream delivers.
MaxLines == 3

Undefined == "undefined"

\* JavaScript truthiness of an optional string (`if (data.error)`).
Truthy(v) == v # Undefined /\ v # ""

\* What a consumer displays for an optional buffer.
Buf(v) == IF v = Undefined THEN "" ELSE v

MessageTags == {"started", "explanation_sent", "explanation", "mapping_sent",
                "mapping", "diagram_sent", "diagram"}

ChunkTags == {"explanation_chunk", "mapping_chunk", "diagram_chunk"}

\* A StreamResponse payload.
Fr(st, msg, ch, exp, dia, err) ==
    [status |-> st, message |-> msg, chunk |-> ch, explanation |-> exp,
     diagram |-> dia, error |-> err]

MessageFrames ==
    {Fr(t, "m", Undefined, Undefined, Undefined, Undefined) : t \in MessageTags}

ChunkFrames ==
    {Fr(t, Undefined, c, Undefined, Undefined, Undefined) :
        t \in ChunkTags, c \in {"a", "b"}}
    \cup {Fr("explanation_chunk", Undefined, c, Undefined, Undefined, Undefined) :
            c \in {Undefined, ""}}

CompleteFrames ==
    {Fr("complete", Undefined, Undefined, e, d, Undefined) :
        e \in {Undefined, "ab"}, d \in {Undefined, "graph"}}

ErrorFrames ==
    {Fr("error", Undefined, Undefined, Undefined, Undefined, e) :
        e \in {Undefined, "", "rate limited"}}
    \cup {Fr("started", "m", Undefined, Undefined, Undefined, "boom"),
          Fr("explanation_chunk", Undefined, "a", Undefined, Undefined, "boom")}

Frames == MessageFrames \cup ChunkFrames \cup CompleteFrames \cup ErrorFrames

NoFrame == Fr("", Undefined, Undefined, Undefined, Undefined, Undefined)

\* One line of the body: its prefix, whether the text after the prefix is
\* valid JSON, and the payload it encodes when it is.
Lines ==
    {[prefix |-> "data:", json |-> TRUE, data |-> f] : f \in Frames}
    \cup {[prefix |-> "data:", json |-> FALSE, data |-> NoFrame],
          [prefix |-> "", json |-> FALSE, data |-> NoFrame]}

BlankLine == [prefix |-> "", json |-> FALSE, data |-> NoFrame]

\* A segment of chunk.split('\n'): a whole line, the head of a line the read
\* ended in, the tail of a line the previous read ended in, or "".
Seg(k, l) == [kind |-> k, line |-> l]

\* line.startsWith('data:')
StartsWithData(seg) ==
    seg.kind \in {"whole", "head"} /\ seg.line.prefix = "data:"

\* JSON.parse(line.slice(5)) returns (does not throw)
Parses(seg) == seg.kind = "whole" /\ seg.line.json

\* The segments the next loop iteration can see, by stream position.
NextSegments(p) ==
    CASE p.at = "bol" -> {Seg(k, l) : k \in {"whole", "head"}, l \in Lines}
                         \cup {Seg("empty", BlankLine)}
      [] p.at = "eol" -> {Seg("empty", BlankLine)}
      [] p.at = "mid" -> {Seg("tail", p.line)}

IdleState ==
    [status |-> "idle", message |-> Undefined, explanation |-> Undefined,
     mapping |-> Undefined, diagram |-> Undefined, error |-> Undefined]

\* setState({ status: 'started', message: 'Generating diagram...' })
StartedState ==
    [IdleState EXCEPT !.status = "started", !.message = "Generating diagram..."]

\* setState({ status: 'error', error: msg })
ErrorState(msg) == [IdleState EXCEPT !.status = "error", !.error = msg]

\* Mutant of OnMessage: the previous state is not spread.
OnMessageResets(prev, data) ==
    [IdleState EXCEPT !.status = data.status, !.message = data.message]

\* setState((prev) => ({ ...prev, status: data.status, message: data.message }))
OnMessage(prev, data) ==
    [prev EXCEPT !.status = data.status, !.message = data.message]

\* buffer += data.chunk
AppendChunk(buffer, chunk) == buffer \o chunk

\* setState((prev) => ({ ...prev, [field]: buffer }))
OnChunk(prev, field, buffer) == [prev EXCEPT ![field] = buffer]

\* Mutant of OnComplete: the previous state is spread and the snapshot dropped.
OnCompleteKeepsBuffers(prev, data) == [prev EXCEPT !.status = "complete"]

\* setState({ status: 'complete', explanation: data.explanation,
\*            diagram: data.diagram })
OnComplete(prev, data) ==
    [IdleState EXCEPT !.status = "complete",
                      !.explanation = data.explanation,
                      !.diagram = data.diagram]

\* The closure buffer a chunk tag appends to.
BufferOf(tag) ==
    CASE tag = "explanation_chunk" -> "explanation"
      [] tag = "mapping_chunk" -> "mapping"
      [] tag = "diagram_chunk" -> "diagram"

\* A chunk frame: `if (data.chunk) { buffer += data.chunk; setState(...) }`
ChunkCase(data, prev, loc) ==
    IF Truthy(data.chunk)
    THEN LET field == BufferOf(data.status)
             buffer == AppendChunk(loc[field], data.chunk)
         IN [state |-> OnChunk(prev, field, buffer),
             locals |-> [loc EXCEPT ![field] = buffer],
             returned |-> FALSE]
    ELSE [state |-> prev, locals |-> loc, returned |-> FALSE]

\* Mutant of OnErrorField: the branch breaks out of the switch, no return.
OnErrorFieldContinues(data, prev, loc) ==
    [state |-> ErrorState(data.error), locals |-> loc, returned |-> FALSE]

\* if (data.error) { setState({ status: 'error', error: data.error });
\*                    setLoading(false); return; }
OnErrorField(data, prev, loc) ==
    [state |-> ErrorState(data.error), locals |-> loc, returned |-> TRUE]

\* The body of the inner try for one parsed payload: the new session state,
\* the new closure buffers, and whether processStream returned.
ProcessData(data, prev, loc) ==
    IF Truthy(data.error)
    THEN OnErrorField(data, prev, loc)
    ELSE CASE data.status \in MessageTags ->
                [state |-> OnMessage(prev, data), locals |-> loc,
                 returned |-> FALSE]
           [] data.status \in ChunkTags -> ChunkCase(data, prev, loc)
           [] data.status = "complete" ->
                [state |-> OnComplete(prev, data), locals |-> loc,
                 returned |-> FALSE]
           [] data.status = "error" ->
                [state |-> ErrorState(data.error), locals |-> loc,
                 returned |-> FALSE]
           [] OTHER -> [state |-> prev, locals |-> loc, returned |-> FALSE]

\* Mutant of OnParseError: a parse failure ends the stream processing.
OnParseErrorAborts(prev, loc) ==
    [state |-> prev, locals |-> loc, returned |-> TRUE]

\* catch (e) { console.error('Error parsing SSE message:', e) }
OnParseError(prev, loc) == [state |-> prev, locals |-> loc, returned |-> FALSE]

\* One iteration of `for (const line of lines)`.
LineResult(seg, prev, loc) ==
    IF StartsWithData(seg)
    THEN IF Parses(seg)
         THEN ProcessData(seg.line.data, prev, loc)
         ELSE OnParseError(prev, loc)
    ELSE [state |-> prev, locals |-> loc, returned |-> FALSE]

\* The line a segment completes the delivery of, if any.
Delivers(seg) == seg.kind \in {"whole", "tail"}

IsFrame(l) == l.prefix = "data:" /\ l.json

IsChunkFrame(l) ==
    IsFrame(l) /\ l.data.status \in ChunkTags /\ l.data.chunk # Undefined

\* Chunks of the chunk frames delivered so far, per buffer, in arrival order.
SentAfter(seg) ==
    IF Delivers(seg) /\ IsChunkFrame(seg.line)
    THEN LET field == BufferOf(seg.line.data.status)
         IN [sent EXCEPT ![field] = @ \o seg.line.data.chunk]
    ELSE sent

\* The chunk goes on after this segment (a newline follows it).
Continues(seg, more) ==
    CASE seg.kind = "head" -> FALSE
      [] seg.kind = "empty" -> pos.at = "eol"
      [] OTHER -> more

PosAfter(seg, more) ==
    CASE seg.kind = "head" -> [at |-> "mid", line |-> seg.line]
      [] seg.kind = "empty" -> [at |-> "bol", line |-> BlankLine]
      [] OTHER -> [at |-> IF more THEN "bol" ELSE "eol", line |-> BlankLine]

NoSegment == Seg("none", BlankLine)

(***************************************************************************)
(* The hook around the stream: getDiagram (cache lookup, then              *)
(* generateDiagram) and the cacheDiagram effect.  The mount effect may     *)
(* fire getDiagram twice (React strict mode), so two runs can overlap;     *)
(* they share `state` and `loading`.  Here a read is one step: it applies  *)
(* the frames of the chunk in order.                                       *)
(***************************************************************************)
\* The invocations of the mount effect `useEffect(() => void getDiagram())`.
Runs == {"first", "second"}

\* Reads of the hook model, over all its streams.
MaxReads == 1

NoLocals == [explanation |-> "", mapping |-> "", diagram |-> ""]

IdleRun ==
    [pc |-> "idle", lookup |-> "none", generated |-> 0, locals |-> NoLocals]

\* useState('') for diagram and error; the dependencies the cacheDiagram
\* effect last ran with; the diagrams POSTed to /api/diagram/cached, the
\* stores still in flight, whether one of them failed, the number of
\* complete frames with a diagram applied so far, the reads so far, and the
\* run that called generateDiagram last.
IdleHook ==
    [diagram |-> "", error |-> "", deps |-> <<"idle", Undefined>>,
     stores |-> <<>>, pending |-> 0, storeFailed |-> FALSE, completed |-> 0,
     reads |-> 0, latest |-> "none"]

\* The frames the streams of the hook model deliver.
HookFrames ==
    {f \in Frames :
        /\ f.status \in {"started", "diagram_chunk", "complete", "error"}
        /\ f.chunk \in {Undefined, "a"}
        /\ f.error \in {Undefined, "rate limited"}
        /\ (f.explanation = Undefined) = (f.diagram = Undefined)}

\* The frames of one read, whole lines only.
Batches ==
    {<<f>> : f \in HookFrames} \cup {<<f, g>> : f \in HookFrames, g \in HookFrames}

\* The loop over the lines of one chunk, for whole `data:` lines.
RECURSIVE ApplyBatch(_, _, _)
ApplyBatch(batch, prev, loc) ==
    IF batch = <<>>
    THEN [state |-> prev, locals |-> loc, returned |-> FALSE, applied |-> 0]
    ELSE LET r == ProcessData(Head(batch), prev, loc)
         IN IF r.returned
            THEN [state |-> r.state, locals |-> r.locals, returned |-> TRUE,
                  applied |-> 1]
            ELSE LET rest == ApplyBatch(Tail(batch), r.state, r.locals)
                 IN [rest EXCEPT !.applied = @ + 1]

\* A complete frame that carries a diagram: a successful generation.
IsSnapshot(f) ==
    ~Truthy(f.error) /\ f.status = "complete" /\ Truthy(f.diagram)

(***************************************************************************)
(* The wiki page (src/frontend/app/[owner]/[repo]/page.tsx).  The page of  *)
(* one repository can be mounted again after the caller navigated away:    *)
(* every instance has its own state and refs, timers and requests of an    *)
(* earlier instance outlive it (the component registers no cleanup).       *)
(***************************************************************************)
Instances == {"A", "B"}

\* Runs of the mount effect of one instance.
MaxEffects == 2

\* Status requests of one instance outstanding at once.
MaxInflight == 2

\* Page ids a status response can report as still in progress.
Pages == {"p1", "p2"}

\* The values of useState / useRef at the first render, and what the
\* instance has requested so far.
InitialPage ==
    [mounted |-> FALSE, effects |-> 0, effectRan |-> FALSE, captured |-> FALSE,
     pc |-> "idle", lookups |-> 0, starts |-> 0,
     requestInProgress |-> FALSE, isLoading |-> TRUE, error |-> "",
     loadingMessage |-> "Initializing", structure |-> Undefined,
     pagesInProgress |-> {},
     task |-> "none", timer |-> FALSE, inflight |-> 0,
     issued |-> {}]

\* What React keeps of an instance: the state of an unmounted component is
\* gone and its setters do nothing; refs, closures, timers and requests in
\* flight remain.
Rendered(p) ==
    IF p.mounted
    THEN p
    ELSE [p EXCEPT !.requestInProgress = InitialPage.requestInProgress,
                   !.isLoading = InitialPage.isLoading,
                   !.error = InitialPage.error,
                   !.loadingMessage = InitialPage.loadingMessage,
                   !.structure = InitialPage.structure,
                   !.pagesInProgress = InitialPage.pagesInProgress]

\* Number of tokens an input of parseRepoInput is made of.
MaxTokens == 5

\* The pieces inputs are made of: a name, the separators, the suffix, a
\* blank, a drive and a scheme.
DotGit == <<".", "g", "i", "t">>

Drive == <<"C", ":", "\\">>

Https == <<"h", "t", "t", "p", "s", ":", "/", "/">>

Tokens == {<<"a">>, <<"/">>, DotGit, <<" ">>, Drive, Https}

RECURSIVE Flatten(_)
Flatten(ts) == IF ts = <<>> THEN <<>> ELSE Head(ts) \o Flatten(Tail(ts))

Inputs == {Flatten(ts) : ts \in UNION {[1..n -> Tokens] : n \in 0..MaxTokens}}

\* String.prototype.trim on the blanks of the alphabet.
RECURSIVE TrimStart(_)
TrimStart(s) == IF s # <<>> /\ Head(s) = " " THEN TrimStart(Tail(s)) ELSE s

RECURSIVE TrimEnd(_)
TrimEnd(s) ==
    IF s # <<>> /\ s[Len(s)] = " " THEN TrimEnd(SubSeq(s, 1, Len(s) - 1)) ELSE s

Trim(s) == TrimEnd(TrimStart(s))

StartsWith(s, p) == Len(s) >= Len(p) /\ SubSeq(s, 1, Len(p)) = p

EndsWith(s, p) == Len(s) >= Len(p) /\ SubSeq(s, Len(s) - Len(p) + 1, Len(s)) = p

\* String.prototype.split on any of the characters of seps.
RECURSIVE Split(_, _)
Split(s, seps) ==
    IF \A k \in 1..Len(s) : s[k] \notin seps
    THEN <<s>>
    ELSE LET k == CHOOSE k \in 1..Len(s) :
                      s[k] \in seps /\ \A j \in 1..(k - 1) : s[j] \notin seps
         IN <<SubSeq(s, 1, k - 1)>> \o Split(SubSeq(s, k + 1, Len(s)), seps)

\* .filter(Boolean).pop() of an array of strings; undefined is the empty
\* string, both are falsy.
RECURSIVE LastTruthy(_)
LastTruthy(parts) ==
    IF parts = <<>> THEN <<>>
    ELSE IF parts[Len(parts)] # <<>> THEN parts[Len(parts)]
    ELSE LastTruthy(SubSeq(parts, 1, Len(parts) - 1))

Letters == {"a", "C", "g", "i", "t", "h", "p", "s"}

\* The characters [\\/:*?"<>|\r\n] a segment of a Windows path excludes.
PathForbidden == {"\\", "/", ":", "*", "?", "\"", "<", ">", "|", "\r", "\n"}

\* windowsPathRegex.test(s)
WindowsPath(s) ==
    /\ Len(s) >= 3
    /\ s[1] \in Letters
    /\ s[2] = ":"
    /\ s[3] = "\\"
    /\ LET parts == Split(SubSeq(s, 4, Len(s)), {"\\"})
       IN /\ \A k \in 1..Len(parts) :
                \A j \in 1..Len(parts[k]) : parts[k][j] \notin PathForbidden
          /\ \A k \in 1..(Len(parts) - 1) : parts[k] # <<>>

\* customGitRegex.test(s): an optional scheme, a first segment, a middle, a
\* last segment, an optional slash.
CustomGit(s) ==
    LET schemes == {p \in {Https, <<"h", "t", "t", "p", ":", "/", "/">>} :
                        StartsWith(s, p)}
        bodies == {s} \cup {SubSeq(s, Len(p) + 1, Len(s)) : p \in schemes}
        ends == bodies \cup {SubSeq(b, 1, Len(b) - 1) :
                                 b \in {c \in bodies : EndsWith(c, <<"/">>)}}
    IN \E t \in ends :
          LET parts == Split(t, {"/"})
          IN /\ Len(parts) >= 3
             /\ parts[1] # <<>>
             /\ parts[Len(parts)] # <<>>
             /\ (Len(parts) >= 4 \/ parts[2] # <<>>)

NoUrl == <<"no url">>

\* new URL(u).pathname for u starting with the scheme https: the slashes
\* after the scheme are skipped, the authority ends at the first slash or
\* backslash, a host must be non-empty without blanks, a port is digits
\* only, backslashes of the path become slashes and blanks are encoded.
RECURSIVE EncodePath(_)
EncodePath(s) ==
    IF s = <<>> THEN <<>>
    ELSE (CASE Head(s) = "\\" -> <<"/">>
            [] Head(s) = " " -> <<"%", "2", "0">>
            [] OTHER -> <<Head(s)>>) \o EncodePath(Tail(s))

RECURSIVE SkipSlashes(_)
SkipSlashes(s) ==
    IF s # <<>> /\ Head(s) \in {"/", "\\"} THEN SkipSlashes(Tail(s)) ELSE s

Pathname(u) ==
    LET rest == SkipSlashes(SubSeq(u, 7, Len(u)))
        authority == Head(Split(rest, {"/", "\\"}))
        hostport == Split(authority, {":"})
        path == SubSeq(rest, Len(authority) + 1, Len(rest))
    IN IF \/ Head(hostport) = <<>>
          \/ \E k \in 1..Len(Head(hostport)) : Head(hostport)[k] = " "
          \/ \E k \in 2..Len(hostport) : hostport[k] # <<>>
       THEN NoUrl
       ELSE IF path = <<>> THEN <<"/">> ELSE EncodePath(path)

\* extractUrlPath: the pathname without one leading and one trailing slash,
\* null when new URL throws.
ExtractUrlPath(s) ==
    LET u == IF StartsWith(s, <<"h", "t", "t", "p">>) THEN s ELSE Https \o s
        name == Pathname(u)
        cut == IF StartsWith(name, <<"/">>) THEN Tail(name) ELSE name
    IN IF name = NoUrl THEN NoUrl
       ELSE IF EndsWith(cut, <<"/">>) THEN SubSeq(cut, 1, Len(cut) - 1) ELSE cut

\* s.replace(/\.git$/, '') and `repo.slice(0, -4)` after endsWith('.git').
StripDotGit(s) == IF EndsWith(s, DotGit) THEN SubSeq(s, 1, Len(s) - 4) ELSE s

Local == <<"l", "o", "c", "a", "l">>

LocalRepo == Local \o <<"-", "r", "e", "p", "o">>

Returned(null, owner, repo, type) ==
    [done |-> TRUE, null |-> null, owner |-> owner, repo |-> repo, type |-> type]

NotParsed ==
    [done |-> FALSE, null |-> TRUE, owner |-> <<>>, repo |-> <<>>, type |-> "github"]

\* The end of parseRepoInput: the check of owner and repo, the trims and
\* the removal of the suffix.
Finish(owner, repo, type) ==
    IF owner = <<>> \/ repo = <<>>
    THEN Returned(TRUE, <<>>, <<>>, type)
    ELSE Returned(FALSE, Trim(owner), StripDotGit(Trim(repo)), type)

parseRepoInput(raw) ==
    LET s == Trim(raw)
    IN IF WindowsPath(s)
       THEN LET parts == Split(s, {"\\"})
                popped == parts[Len(parts)]
            IN Finish(Local, IF popped = <<>> THEN LocalRepo ELSE popped, "local")
       ELSE IF StartsWith(s, <<"/">>)
       THEN LET popped == LastTruthy(Split(s, {"/"}))
            IN Finish(Local, IF popped = <<>> THEN LocalRepo ELSE popped, "local")
       ELSE IF CustomGit(s)
       THEN LET path == ExtractUrlPath(s)
                parts == IF path = NoUrl THEN <<>>
                         ELSE Split(StripDotGit(path), {"/"})
            IN IF Len(parts) >= 2
               THEN Finish(parts[Len(parts) - 1], parts[Len(parts)], "web")
               ELSE Finish(<<>>, <<>>, "web")
       ELSE Returned(TRUE, <<>>, <<>>, "github")

\* The Ask component before a question is typed; each submitted question
\* is a run of handleConfirmAsk with its position and its `fullResponse`.
Asks == {"first", "second"}

\* Number of chunks the body of one answer delivers.
MaxChunks == 2

Questions == {"", " ", "why"}

IdleAsk ==
    [question |-> "", response |-> "", isLoading |-> FALSE,
     run |-> [a \in Asks |-> [pc |-> "idle", fullResponse |-> "", chunks |-> 0]]]

\* Everything but the input of parseRepoInput before anything happened.
AppIdle ==
    /\ pc = "idle"
    /\ state = IdleState
    /\ locals = [explanation |-> "", mapping |-> "", diagram |-> ""]
    /\ loading = TRUE
    /\ locked = FALSE
    /\ pos = [at |-> "bol", line |-> BlankLine]
    /\ parseErrors = 0
    /\ nLines = 0
    /\ last = NoSegment
    /\ sent = [explanation |-> "", mapping |-> "", diagram |-> ""]
    /\ aligned = TRUE
    /\ clean = TRUE
    /\ pure = TRUE
    /\ run = [r \in Runs |-> IdleRun]
    /\ hook = IdleHook
    /\ page = [i \in Instances |-> InitialPage]
    /\ parsed = NotParsed
    /\ ask = IdleAsk

Init == AppIdle /\ input = <<>>

\* Any input may be handed to parseRepoInput.
InitParse == AppIdle /\ input \in Inputs

\* generateDiagram up to `await fetch(...)`.
GenerateDiagram ==
    /\ pc = "idle"
    /\ state' = StartedState
    /\ pc' = "fetching"
    /\ UNCHANGED <<locals, loading, locked, pos, parseErrors, nLines, last,
                   sent, aligned, clean, pure>>
    /\ UNCHANGED <<hookVars, wikiVars, formVars>>

\* The messages the catch of generateDiagram can store before any read.
FetchFailures ==
    {"Failed to generate diagram", "Failed to get reader",
     "An unknown error occurred", "Failed to fetch"}

\* Mutant of FetchFails: the catch of generateDiagram forgets setState.
FetchFailsSilently ==
    /\ pc = "fetching"
    /\ loading' = FALSE
    /\ pc' = "caught"
    /\ UNCHANGED <<state, locals, locked, pos, parseErrors, nLines, last, sent,
                   aligned, clean, pure>>
    /\ UNCHANGED <<hookVars, wikiVars, formVars>>

\* fetch rejects, the response is not ok, or there is no body reader.
FetchFails ==
    /\ pc = "fetching"
    /\ \E msg \in FetchFailures : state' = ErrorState(msg)
    /\ loading' = FALSE
    /\ pc' = "caught"
    /\ UNCHANGED <<locals, locked, pos, parseErrors, nLines, last, sent,
                   aligned, clean, pure>>
    /\ UNCHANGED <<hookVars, wikiVars, formVars>>

\* response.ok and response.body.getReader() returned a reader.
FetchOk ==
    /\ pc = "fetching"
    /\ locked' = TRUE
    /\ locals' = [explanation |-> "", mapping |-> "", diagram |-> ""]
    /\ pc' = "reading"
    /\ UNCHANGED <<state, loading, pos, parseErrors, nLines, last, sent,
                   aligned, clean, pure>>
    /\ UNCHANGED <<hookVars, wikiVars, formVars>>

\* reader.read() resolves with { done: false, value }.
ReadChunk ==
    /\ pc = "reading"
    /\ nLines < MaxLines
    /\ pos.at = "eol" => nLines + 1 < MaxLines
    /\ pc' = "lines"
    /\ UNCHANGED <<state, locals, loading, locked, pos, parseErrors, nLines,
                   last, sent, aligned, clean, pure>>
    /\ UNCHANGED <<hookVars, wikiVars, formVars>>

\* One iteration of the loop over chunk.split('\n').
ProcessLine ==
    /\ pc = "lines"
    /\ nLines < MaxLines
    /\ \E seg \in NextSegments(pos), more \in BOOLEAN :
         LET r == LineResult(seg, state, locals)
             goesOn == Continues(seg, more)
         IN /\ goesOn => nLines + 1 < MaxLines
            /\ (seg.kind \in {"head", "empty"}) => more
            /\ state' = r.state
            /\ locals' = r.locals
            /\ loading' = IF r.returned THEN FALSE ELSE loading
            /\ locked' = IF r.returned THEN FALSE ELSE locked
            /\ pc' = IF r.returned THEN "settled"
                     ELSE IF goesOn THEN "lines" ELSE "reading"
            /\ pos' = PosAfter(seg, more)
            /\ parseErrors' =
                 IF StartsWithData(seg) /\ ~Parses(seg)
                 THEN parseErrors + 1 ELSE parseErrors
            /\ last' = seg
            /\ sent' = SentAfter(seg)
            /\ aligned' = (aligned /\ seg.kind \notin {"head", "tail"})
            /\ clean' = (clean /\ ~(/\ Delivers(seg)
                                    /\ IsFrame(seg.line)
                                    /\ \/ seg.line.data.error # Undefined
                                       \/ seg.line.data.status = "complete"))
            /\ pure' = (pure /\ (Delivers(seg) =>
                                   \/ seg.line.prefix = ""
                                   \/ /\ IsChunkFrame(seg.line)
                                      /\ Truthy(seg.line.data.chunk)
                                      /\ seg.line.data.error = Undefined))
    /\ nLines' = nLines + 1
    /\ UNCHANGED <<hookVars, wikiVars, formVars>>

\* Mutant of ReadDone: processStream has no finally block.
ReadDoneKeepsLock ==
    /\ pc = "reading"
    /\ pc' = "settled"
    /\ UNCHANGED <<state, locals, loading, locked, pos, parseErrors, nLines,
                   last, sent, aligned, clean, pure>>
    /\ UNCHANGED <<hookVars, wikiVars, formVars>>

\* reader.read() resolves with { done: true }: the loop breaks, the finally
\* releases the lock and generateDiagram returns.
ReadDone ==
    /\ pc = "reading"
    /\ locked' = FALSE
    /\ pc' = "settled"
    /\ UNCHANGED <<state, locals, loading, pos, parseErrors, nLines, last,
                   sent, aligned, clean, pure>>
    /\ UNCHANGED <<hookVars, wikiVars, formVars>>

\* reader.read() rejects: the finally releases the lock and the catch of
\* generateDiagram stores the error.
ReadFails ==
    /\ pc = "reading"
    /\ locked' = FALSE
    /\ state' = ErrorState("network error")
    /\ loading' = FALSE
    /\ pc' = "caught"
    /\ UNCHANGED <<locals, pos, parseErrors, nLines, last, sent, aligned,
                   clean, pure>>
    /\ UNCHANGED <<hookVars, wikiVars, formVars>>

Next ==
    \/ GenerateDiagram
    \/ FetchFails
    \/ FetchOk
    \/ ReadChunk
    \/ ProcessLine
    \/ ReadDone
    \/ ReadFails

Spec == Init /\ [][Next]_vars

\* parseRepoInput is applied to the input.
ParseRepoInput ==
    /\ ~parsed.done
    /\ parsed' = parseRepoInput(input)
    /\ UNCHANGED <<state, loading, hookVars, streamVars, wikiVars, input, ask>>

ParseNext == ParseRepoInput

SpecParse == InitParse /\ [][ParseNext]_vars

\* onChange of the question field.
SetQuestion(q) ==
    /\ q # ask.question
    /\ ask' = [ask EXCEPT !.question = q]
    /\ UNCHANGED <<state, loading, hookVars, streamVars, wikiVars, input, parsed>>

\* `!question.trim()`
Blank(q) == q \in {"", " "}

AskError == "ask.error"

\* The catch of handleConfirmAsk.
OnAskThrows(k, a) ==
    [k EXCEPT !.response = AskError, !.isLoading = FALSE, !.run[a].pc = "done"]

\* handleSubmit and handleConfirmAsk up to `await fetch('/api/chat/stream')`.
HandleSubmit(a) ==
    /\ ask.run[a].pc = "idle"
    /\ ~Blank(ask.question)
    /\ ~ask.isLoading
    /\ ask' = [ask EXCEPT !.isLoading = TRUE, !.response = "",
                          !.run[a].pc = "fetching"]
    /\ UNCHANGED <<state, loading, hookVars, streamVars, wikiVars, input, parsed>>

\* fetch rejects or the response is not ok.
AskRequestFails(a) ==
    /\ ask.run[a].pc = "fetching"
    /\ ask' = OnAskThrows(ask, a)
    /\ UNCHANGED <<state, loading, hookVars, streamVars, wikiVars, input, parsed>>

\* The response is ok: the read loop starts.
AskResponseOk(a) ==
    /\ ask.run[a].pc = "fetching"
    /\ ask' = [ask EXCEPT !.run[a].pc = "reading"]
    /\ UNCHANGED <<state, loading, hookVars, streamVars, wikiVars, input, parsed>>

\* A read delivers a chunk: setResponse(fullResponse), setIsLoading(false).
AskRead(a) ==
    /\ ask.run[a].pc = "reading"
    /\ ask.run[a].chunks < MaxChunks
    /\ \E c \in {"x", "y"} :
          ask' = [ask EXCEPT !.run[a].fullResponse = @ \o c,
                             !.run[a].chunks = @ + 1,
                             !.response = ask.run[a].fullResponse \o c,
                             !.isLoading = FALSE]
    /\ UNCHANGED <<state, loading, hookVars, streamVars, wikiVars, input, parsed>>

\* A read reports done: the loop breaks and handleConfirmAsk returns.
AskReadDone(a) ==
    /\ ask.run[a].pc = "reading"
    /\ ask' = [ask EXCEPT !.run[a].pc = "done"]
    /\ UNCHANGED <<state, loading, hookVars, streamVars, wikiVars, input, parsed>>

\* The body has no reader or a read rejects.
AskReadFails(a) ==
    /\ ask.run[a].pc = "reading"
    /\ ask' = OnAskThrows(ask, a)
    /\ UNCHANGED <<state, loading, hookVars, streamVars, wikiVars, input, parsed>>

AskNext ==
    \/ \E q \in Questions : SetQuestion(q)
    \/ \E a \in Asks : HandleSubmit(a)
    \/ \E a \in Asks : AskRequestFails(a)
    \/ \E a \in Asks : AskResponseOk(a)
    \/ \E a \in Asks : AskRead(a)
    \/ \E a \in Asks : AskReadDone(a)
    \/ \E a \in Asks : AskReadFails(a)

SpecAsk == Init /\ [][AskNext]_vars

\* getDiagram up to the cache lookup `await fetch('/api/diagram/cached?...')`.
GetDiagram(r) ==
    /\ run[r].pc = "idle"
    /\ loading' = TRUE
    /\ hook' = [hook EXCEPT !.error = ""]
    /\ run' = [run EXCEPT ![r].pc = "lookup"]
    /\ UNCHANGED <<state, streamVars, wikiVars, formVars>>

CachedDiagrams == {"cached"}

\* The lookup answers ok with a diagram: setDiagram, return, finally.
CacheHit(r) ==
    /\ run[r].pc = "lookup"
    /\ \E d \in CachedDiagrams : hook' = [hook EXCEPT !.diagram = d]
    /\ loading' = FALSE
    /\ run' = [run EXCEPT ![r].pc = "done", ![r].lookup = "hit"]
    /\ UNCHANGED <<state, streamVars, wikiVars, formVars>>

\* The lookup answers not ok, or ok without a diagram: generateDiagram is
\* called and runs up to `await fetch('/api/diagram/generate')`.
CacheMiss(r) ==
    /\ run[r].pc = "lookup"
    /\ state' = StartedState
    /\ run' = [run EXCEPT ![r].pc = "fetching", ![r].lookup = "miss",
                          ![r].generated = @ + 1]
    /\ hook' = [hook EXCEPT !.latest = r]
    /\ UNCHANGED <<loading, streamVars, wikiVars, formVars>>

\* What the catch of getDiagram stores.
OnLookupThrows(h) ==
    [h EXCEPT !.error = "An error occurred while generating the diagram"]

\* The lookup request rejects, or response.json() does: catch, finally.
CacheLookupThrows(r) ==
    /\ run[r].pc = "lookup"
    /\ hook' = OnLookupThrows(hook)
    /\ loading' = FALSE
    /\ run' = [run EXCEPT ![r].pc = "done", ![r].lookup = "threw"]
    /\ UNCHANGED <<state, streamVars, wikiVars, formVars>>

\* The generate request fails before any read: the catch of generateDiagram,
\* then the finally of getDiagram.
RequestFails(r) ==
    /\ run[r].pc = "fetching"
    /\ \E msg \in FetchFailures : state' = ErrorState(msg)
    /\ loading' = FALSE
    /\ run' = [run EXCEPT ![r].pc = "done"]
    /\ UNCHANGED <<hook, streamVars, wikiVars, formVars>>

\* The generate request answers ok with a body reader.
RequestOk(r) ==
    /\ run[r].pc = "fetching"
    /\ run' = [run EXCEPT ![r].pc = "reading", ![r].locals = NoLocals]
    /\ UNCHANGED <<state, loading, hook, streamVars, wikiVars, formVars>>

\* One read of the stream of run r and the loop over its lines.
StreamRead(r) ==
    /\ run[r].pc = "reading"
    /\ hook.reads < MaxReads
    /\ \E batch \in Batches :
         LET res == ApplyBatch(batch, state, run[r].locals)
             snapshots == {i \in 1..res.applied : IsSnapshot(batch[i])}
         IN /\ state' = res.state
            /\ run' = [run EXCEPT ![r].locals = res.locals,
                                  ![r].pc = IF res.returned THEN "done" ELSE @]
            /\ loading' = IF res.returned THEN FALSE ELSE loading
            /\ hook' = [hook EXCEPT !.completed = @ + Cardinality(snapshots),
                                    !.reads = @ + 1]
    /\ UNCHANGED <<streamVars, wikiVars, formVars>>

\* Mutant of StreamEnds: getDiagram has no finally block.
StreamEndsKeepsLoading(r) ==
    /\ run[r].pc = "reading"
    /\ run' = [run EXCEPT ![r].pc = "done"]
    /\ UNCHANGED <<state, loading, hook, streamVars, wikiVars, formVars>>

\* The body of run r ends: generateDiagram returns, finally of getDiagram.
StreamEnds(r) ==
    /\ run[r].pc = "reading"
    /\ loading' = FALSE
    /\ run' = [run EXCEPT ![r].pc = "done"]
    /\ UNCHANGED <<state, hook, streamVars, wikiVars, formVars>>

\* Mutant of StreamFails: generateDiagram has no catch, the rejection
\* reaches the catch of getDiagram.
StreamFailsRejects(r) ==
    /\ run[r].pc = "reading"
    /\ hook' = OnLookupThrows(hook)
    /\ loading' = FALSE
    /\ run' = [run EXCEPT ![r].pc = "done"]
    /\ UNCHANGED <<state, streamVars, wikiVars, formVars>>

\* A read of run r rejects: catch of generateDiagram, finally of getDiagram.
StreamFails(r) ==
    /\ run[r].pc = "reading"
    /\ state' = ErrorState("network error")
    /\ loading' = FALSE
    /\ run' = [run EXCEPT ![r].pc = "done"]
    /\ UNCHANGED <<hook, streamVars, wikiVars, formVars>>

\* The cacheDiagram effect: it runs after a render in which state.status or
\* state.diagram differ from the values it last ran with.
CacheDiagram ==
    /\ hook.deps # <<state.status, state.diagram>>
    /\ IF state.status = "complete" /\ Truthy(state.diagram)
       THEN /\ hook' = [hook EXCEPT !.deps = <<state.status, state.diagram>>,
                                    !.diagram = state.diagram,
                                    !.stores = Append(@, state.diagram),
                                    !.pending = @ + 1]
            /\ UNCHANGED loading
       ELSE /\ hook' = [hook EXCEPT !.deps = <<state.status, state.diagram>>]
            /\ loading' = IF state.status = "error" THEN FALSE ELSE loading
    /\ UNCHANGED <<state, run, streamVars, wikiVars, formVars>>

StoreOutcomes == {"ok", "not ok", "threw"}

\* Mutant of OnStoreSettled: a failed store is reported as the hook's error.
OnStoreSettledReportsFailure(h, outcome) ==
    [h EXCEPT !.pending = @ - 1, !.storeFailed = (@ \/ outcome # "ok"),
              !.error = IF outcome = "ok" THEN @ ELSE "Failed to cache diagram"]

\* The hook after the store request settled: ok and not ok are only logged,
\* a rejection is dropped by `void cacheDiagram()`.
OnStoreSettled(h, outcome) ==
    [h EXCEPT !.pending = @ - 1, !.storeFailed = (@ \/ outcome # "ok")]

\* A store request POST /api/diagram/cached settles.
StoreSettles ==
    /\ hook.pending > 0
    /\ \E outcome \in StoreOutcomes : hook' = OnStoreSettled(hook, outcome)
    /\ UNCHANGED <<state, loading, run, streamVars, wikiVars, formVars>>

HookNext ==
    \/ \E r \in Runs : GetDiagram(r)
    \/ \E r \in Runs : CacheHit(r)
    \/ \E r \in Runs : CacheMiss(r)
    \/ \E r \in Runs : CacheLookupThrows(r)
    \/ \E r \in Runs : RequestFails(r)
    \/ \E r \in Runs : RequestOk(r)
    \/ \E r \in Runs : StreamRead(r)
    \/ \E r \in Runs : StreamEnds(r)
    \/ \E r \in Runs : StreamFails(r)
    \/ CacheDiagram
    \/ StoreSettles

SpecHook == Init /\ [][HookNext]_vars

\* A step of run r after getDiagram was called: a network call it awaits
\* settles (the lookup, the generate request, a read of the body).
Settles(r) ==
    \/ CacheHit(r)
    \/ CacheMiss(r)
    \/ CacheLookupThrows(r)
    \/ RequestFails(r)
    \/ RequestOk(r)
    \/ StreamRead(r)
    \/ StreamEnds(r)
    \/ StreamFails(r)

\* The hook when every network call a run awaits settles.
SpecHookFair == SpecHook /\ \A r \in Runs : WF_vars(Settles(r))

(***************************************************************************)
(* The wiki page: mount effect, cache lookup, start of the generation and  *)
(* the status polls.                                                       *)
(***************************************************************************)
\* Mutant of EffectGuard: the effect does not look at effectRan.
EffectGuardAlways(p) == TRUE

\* `if (effectRan.current === false)`.
EffectGuard(p) == p.effectRan = FALSE

\* One run of the mount effect: the first one sets effectRan and calls
\* processRepo, which issues the cache lookup; processRepo keeps the
\* startWikiGeneration of this render, with its requestInProgress.
MountEffect(p) ==
    IF EffectGuard(p)
    THEN [p EXCEPT !.effects = @ + 1, !.effectRan = TRUE,
                   !.captured = p.requestInProgress,
                   !.lookups = @ + 1, !.issued = @ \cup {"lookup"},
                   !.loadingMessage = "Initializing",
                   !.pc = "lookup"]
    ELSE [p EXCEPT !.effects = @ + 1]

\* The page of the repository is opened: first render and mount effect.  An
\* instance is created once, and only while no other one is on screen.
Mount(i) ==
    /\ page[i] = InitialPage
    /\ \A j \in Instances : ~page[j].mounted
    /\ i = "B" => page["A"] # InitialPage
    /\ page' = [page EXCEPT ![i] = MountEffect([page[i] EXCEPT !.mounted = TRUE])]
    /\ UNCHANGED <<state, loading, hookVars, streamVars, formVars>>

\* The effect runs again: a dependency changed (startWikiGeneration is a new
\* function whenever requestInProgress changes) or StrictMode re-invokes it.
EffectReruns(i) ==
    /\ page[i].mounted
    /\ page[i].effects < MaxEffects
    /\ page' = [page EXCEPT ![i] = MountEffect(page[i])]
    /\ UNCHANGED <<state, loading, hookVars, streamVars, formVars>>

\* The caller navigates away: the component registers no cleanup.
Unmount(i) ==
    /\ page[i].mounted
    /\ page' = [page EXCEPT ![i] = Rendered([page[i] EXCEPT !.mounted = FALSE])]
    /\ UNCHANGED <<state, loading, hookVars, streamVars, formVars>>

\* The lookup answers ok with a structure and at least one generated page.
LookupHit(i) ==
    /\ page[i].pc = "lookup"
    /\ page' = [page EXCEPT ![i] =
                   Rendered([page[i] EXCEPT !.structure = "cached",
                                            !.isLoading = FALSE,
                                            !.loadingMessage = Undefined,
                                            !.pc = "settled"])]
    /\ UNCHANGED <<state, loading, hookVars, streamVars, formVars>>

\* startWikiGeneration up to `await fetch('/api/wiki/generate')`, as called
\* by processRepo: the guard reads the requestInProgress of its closure.
StartWikiGeneration(p) ==
    IF p.captured
    THEN [p EXCEPT !.starts = @ + 1, !.pc = "settled"]
    ELSE [p EXCEPT !.starts = @ + 1, !.structure = Undefined,
                   !.pagesInProgress = {}, !.error = "",
                   !.requestInProgress = TRUE, !.isLoading = TRUE,
                   !.loadingMessage = "Initializing",
                   !.issued = @ \cup {"generate"}, !.pc = "starting"]

\* The lookup answers not ok, or without usable data, or throws: the inner
\* try/catch logs and processRepo calls startWikiGeneration.
LookupMiss(i) ==
    /\ page[i].pc = "lookup"
    /\ page' = [page EXCEPT ![i] = Rendered(StartWikiGeneration(page[i]))]
    /\ UNCHANGED <<state, loading, hookVars, streamVars, formVars>>

\* The start request answers ok: task id, immediate status check, recurring
\* status check, then the finally block.
StartOk(i) ==
    /\ page[i].pc = "starting"
    /\ page' = [page EXCEPT ![i] =
                   Rendered([page[i] EXCEPT !.task = "running",
                                            !.inflight = @ + 1,
                                            !.issued = @ \cup {"status"},
                                            !.timer = TRUE,
                                            !.requestInProgress = FALSE,
                                            !.pc = "settled"])]
    /\ UNCHANGED <<state, loading, hookVars, streamVars, formVars>>

\* The start request answers not ok: console.error, then the finally block.
StartNotOk(i) ==
    /\ page[i].pc = "starting"
    /\ page' = [page EXCEPT ![i] =
                   Rendered([page[i] EXCEPT !.requestInProgress = FALSE,
                                            !.pc = "settled"])]
    /\ UNCHANGED <<state, loading, hookVars, streamVars, formVars>>

\* fetch or response.json() rejects: the catch, then the finally block.
StartThrows(i) ==
    /\ page[i].pc = "starting"
    /\ page' = [page EXCEPT ![i] =
                   Rendered([page[i] EXCEPT !.isLoading = FALSE,
                                            !.error = "Failed to fetch",
                                            !.loadingMessage = Undefined,
                                            !.requestInProgress = FALSE,
                                            !.pc = "settled"])]
    /\ UNCHANGED <<state, loading, hookVars, streamVars, formVars>>

\* The interval fires: pollStatus issues a status request.
PollTick(i) ==
    /\ page[i].timer
    /\ page[i].inflight < MaxInflight
    /\ page' = [page EXCEPT ![i].inflight = @ + 1, ![i].issued = @ \cup {"status"}]
    /\ UNCHANGED <<state, loading, hookVars, streamVars, formVars>>

\* The bodies a status request can answer with: page ids in progress come
\* with status processing, an error text comes alone.
StatusBodies ==
    {d \in [status : {"processing", "success", "error"},
            error : {Undefined, "boom"},
            message : {"working"},
            result : {Undefined, "S1", "S2"},
            progress : SUBSET Pages] :
        /\ d.status # "processing" => d.progress = {}
        /\ d.error # Undefined => d.result = Undefined /\ d.progress = {}
        /\ d.status = "success" => d.error = Undefined}

\* The status request, or the parsing of its body, rejects.
PollThrew ==
    [status |-> "threw", error |-> Undefined, message |-> Undefined,
     result |-> Undefined, progress |-> {}]

\* What a status request can resolve to.
PollResponses == StatusBodies \cup {PollThrew}

\* Mutant of OnPollResponse: success or an error does not clear the interval.
OnPollResponseKeepsPolling(p, data) ==
    IF data.status = "threw"
    THEN [p EXCEPT !.timer = FALSE]
    ELSE IF data.status = "success" \/ Truthy(data.error)
    THEN [p EXCEPT !.isLoading = FALSE, !.loadingMessage = Undefined,
                   !.task = IF data.status = "success" THEN "success" ELSE "error"]
    ELSE IF data.status = "processing" /\ Truthy(data.result)
    THEN [p EXCEPT !.loadingMessage = data.message,
                   !.structure = data.result, !.pagesInProgress = data.progress]
    ELSE [p EXCEPT !.loadingMessage = data.message]

\* Mutant of OnPollResponse: the catch does not clear the interval.
OnPollResponseRetries(p, data) ==
    IF data.status = "threw"
    THEN p
    ELSE IF data.status = "success" \/ Truthy(data.error)
    THEN [p EXCEPT !.timer = FALSE, !.isLoading = FALSE,
                   !.loadingMessage = Undefined,
                   !.task = IF data.status = "success" THEN "success" ELSE "error"]
    ELSE IF data.status = "processing" /\ Truthy(data.result)
    THEN [p EXCEPT !.loadingMessage = data.message,
                   !.structure = data.result, !.pagesInProgress = data.progress]
    ELSE [p EXCEPT !.loadingMessage = data.message]

\* Mutant of OnPollResponse: the reported page ids are merged into the set.
OnPollResponseMerges(p, data) ==
    IF data.status = "threw"
    THEN [p EXCEPT !.timer = FALSE]
    ELSE IF data.status = "success" \/ Truthy(data.error)
    THEN [p EXCEPT !.timer = FALSE, !.isLoading = FALSE,
                   !.loadingMessage = Undefined,
                   !.task = IF data.status = "success" THEN "success" ELSE "error"]
    ELSE IF data.status = "processing" /\ Truthy(data.result)
    THEN [p EXCEPT !.loadingMessage = data.message,
                   !.structure = data.result,
                   !.pagesInProgress = @ \cup data.progress]
    ELSE [p EXCEPT !.loadingMessage = data.message]

\* pollStatus after `await res.json()`, or its catch.
OnPollResponse(p, data) ==
    IF data.status = "threw"
    THEN [p EXCEPT !.timer = FALSE]
    ELSE IF data.status = "success" \/ Truthy(data.error)
    THEN [p EXCEPT !.timer = FALSE, !.isLoading = FALSE,
                   !.loadingMessage = Undefined,
                   !.task = IF data.status = "success" THEN "success" ELSE "error"]
    ELSE IF data.status = "processing" /\ Truthy(data.result)
    THEN [p EXCEPT !.loadingMessage = data.message,
                   !.structure = data.result, !.pagesInProgress = data.progress]
    ELSE [p EXCEPT !.loadingMessage = data.message]

\* One outstanding status request of instance i resolves.
PollResponse(i) ==
    /\ page[i].inflight > 0
    /\ \E data \in PollResponses :
          page' = [page EXCEPT ![i] =
                      Rendered(OnPollResponse([page[i] EXCEPT !.inflight = @ - 1], data))]
    /\ UNCHANGED <<state, loading, hookVars, streamVars, formVars>>

WikiNext ==
    \/ \E i \in Instances : Mount(i)
    \/ \E i \in Instances : EffectReruns(i)
    \/ \E i \in Instances : Unmount(i)
    \/ \E i \in Instances : LookupHit(i)
    \/ \E i \in Instances : LookupMiss(i)
    \/ \E i \in Instances : StartOk(i)
    \/ \E i \in Instances : StartNotOk(i)
    \/ \E i \in Instances : StartThrows(i)
    \/ \E i \in Instances : PollTick(i)
    \/ \E i \in Instances : PollResponse(i)

SpecWiki == Init /\ [][WikiNext]_vars

(***************************************************************************)
(* Claims                                                                  *)
(***************************************************************************)
Buffers == {"explanation", "mapping", "diagram"}

\* This step is one iteration of the loop over the lines of a chunk.
LineStep == nLines' = nLines + 1

\* This step parsed a `data:` line and applied its payload.
AppliedFrame == LineStep /\ StartsWithData(last') /\ Parses(last')

\* C1: for a stream of valid chunk frames only, once the body has ended every
\* buffer equals the concatenation of the chunks sent for it, in order,
\* however the bytes were split across reads (also in the middle of a line).
C1_ChunksSurviveAnySplit ==
    (pc = "settled" /\ pure) =>
        \A b \in Buffers : Buf(state[b]) = sent[b]

\* C2: while every read held whole lines only and no frame carried an error
\* field or the status complete, each buffer equals the concatenation, in
\* arrival order, of the chunks of the frames tagged for it.
C2_BuffersAreChunkConcatenation ==
    (pc \in {"reading", "lines", "settled"} /\ aligned /\ clean) =>
        \A b \in Buffers : Buf(state[b]) = sent[b]

\* C3: applying an error frame (status error, carrying its text) sets status
\* to error and leaves explanation, mapping and diagram as they were.
C3_ErrorFreezesBuffers ==
    [][(/\ AppliedFrame
        /\ last'.line.data.status = "error"
        /\ Truthy(last'.line.data.error))
       => /\ state'.status = "error"
          /\ \A b \in Buffers : state'[b] = state[b]]_vars

\* C4: once the session is complete, no later line of the stream changes it.
C4_CompleteIsTerminal ==
    [][(state.status = "complete" /\ LineStep) => state' = state]_vars

\* C5: once the session has status error, with or without an error text, no
\* later line of the stream changes it.
C5_ErrorStatusIsTerminal ==
    [][(state.status = "error" /\ LineStep) => state' = state]_vars

\* C6: a frame whose error field is set (a non-empty text) moves the session
\* to status error with that text, whatever its tag, and processStream
\* returns: after it no line and no read changes the session.
C6_ErrorFieldStopsConsumption ==
    [][/\ (AppliedFrame /\ Truthy(last'.line.data.error))
            => /\ state'.status = "error"
               /\ state'.error = last'.line.data.error
               /\ pc' = "settled"
       /\ pc = "settled" => (state' = state /\ pc' = "settled")]_vars

\* Scenario C: a malformed line, then {status: error, error: "rate limited"}.
C6_Witness ==
    /\ pc = "settled"
    /\ nLines = 2
    /\ parseErrors = 1
    /\ last.line.data.status = "error"
    /\ state.status = "error"
    /\ state.error = "rate limited"
    /\ \A b \in Buffers : state[b] = Undefined

\* C7: after applying a frame without error field the session status is the
\* frame's status tag, for every tag.
C7_StatusFollowsFrame ==
    [][(AppliedFrame /\ last'.line.data.error = Undefined)
       => state'.status = last'.line.data.status]_vars

\* C8: a `data:` line whose payload fails to parse changes neither the
\* session nor the closure buffers and does not end the processing, so the
\* frames around it have the effect they have without it.
C8_MalformedLineIsSkipped ==
    [][(LineStep /\ StartsWithData(last') /\ ~Parses(last'))
       => /\ state' = state
          /\ locals' = locals
          /\ loading' = loading
          /\ locked'
          /\ pc' \in {"lines", "reading"}]_vars

\* chunk "a", a malformed line, chunk "b": the buffer is "ab".
C8_Witness ==
    /\ aligned
    /\ nLines = 3
    /\ parseErrors = 1
    /\ StartsWithData(last) /\ Parses(last)
    /\ last.line.data.chunk = "b"
    /\ state.explanation = "ab"
    /\ sent.explanation = "ab"

\* C9: no line of the stream makes explanation, mapping or diagram shorter.
C9_BuffersNeverShrink ==
    [][LineStep =>
        \A b \in Buffers : Len(Buf(state'[b])) >= Len(Buf(state[b]))]_vars

\* C10: applying a complete frame sets status to complete and explanation
\* and diagram to the snapshot fields of the frame.
C10_CompleteOverwritesWithSnapshot ==
    [][(/\ AppliedFrame
        /\ last'.line.data.status = "complete"
        /\ ~Truthy(last'.line.data.error))
       => /\ state'.status = "complete"
          /\ state'.explanation = last'.line.data.explanation
          /\ state'.diagram = last'.line.data.diagram]_vars

\* Scenario A: chunks "a" and "b", then complete with the snapshot.
C10_Witness ==
    /\ nLines = 3
    /\ locals.explanation = "ab"
    /\ last.kind = "whole"
    /\ last.line.data.status = "complete"
    /\ state.status = "complete"
    /\ state.explanation = "ab"
    /\ state.diagram = "graph"

\* C11: a call of startWikiGeneration for the key is admitted (it issues the
\* generate request) exactly when no start for that key is in progress; a
\* call made while one is in progress is rejected.
C11_SecondStartIsRejected ==
    [][\A i \in Instances :
          page'[i].starts = page[i].starts + 1 =>
              (page'[i].pc = "starting"
                  <=> ~\E j \in Instances : page[j].pc = "starting")]_vars

\* C12: for the key at most one recurring status-check timer is live.
C12_AtMostOneLiveTimer ==
    Cardinality({i \in Instances : page[i].timer}) <= 1

\* C13: when the mount effect fires getDiagram twice, at most one generate
\* request or stream is in flight at any time.
C13_NoDuplicateNetworkWork ==
    Cardinality({r \in Runs : run[r].pc \in {"fetching", "reading"}}) <= 1

\* C14: however often the mount effect of one page instance runs, the
\* instance issues the cache lookup at most once and calls
\* startWikiGeneration at most once.
C14_MountEffectRunsOnce ==
    \A i \in Instances : page[i].lookups <= 1 /\ page[i].starts <= 1

\* The effect ran more than once, one lookup and one start were made.
C14_Witness ==
    \E i \in Instances :
        page[i].effects >= 2 /\ page[i].lookups = 1 /\ page[i].starts = 1

\* C15: a run of getDiagram whose lookup missed (not ok, no diagram, or a
\* thrown request) has invoked generateDiagram exactly once when it ends; a
\* run whose lookup hit has invoked it zero times.
C15_MissGeneratesOnceHitNever ==
    \A r \in Runs :
        run[r].pc = "done" =>
            /\ run[r].lookup = "hit" => run[r].generated = 0
            /\ run[r].lookup \in {"miss", "threw"} => run[r].generated = 1

\* C16: after a lookup that failed (thrown or not found) the error the hook
\* returns is still empty.
C16_LookupFailureNotSurfaced ==
    \A r \in Runs : run[r].lookup \in {"miss", "threw"} => hook.error = ""

\* C17: when a store request settles, whatever its outcome, the session
\* state, the exposed diagram, the error and the loading flag are unchanged.
C17_StoreFailureChangesNothing ==
    [][hook'.pending = hook.pending - 1
       => /\ state' = state
          /\ hook'.diagram = hook.diagram
          /\ hook'.error = hook.error
          /\ loading' = loading]_vars

\* A store failed after a generation: still complete, diagram exposed, no error.
C17_Witness ==
    /\ hook.storeFailed
    /\ hook.pending = 0
    /\ state.status = "complete"
    /\ hook.diagram = "graph"
    /\ hook.error = ""

\* The diagrams of the complete snapshots the streams can deliver.
SnapshotDiagrams == {f.diagram : f \in {g \in HookFrames : IsSnapshot(g)}}

\* No run in flight, the effect has seen the current state, no store pending.
HookQuiet ==
    /\ \A r \in Runs : run[r].pc \in {"idle", "done"}
    /\ hook.deps = <<state.status, state.diagram>>
    /\ hook.pending = 0

\* C18: with a single run of getDiagram, every store carries the diagram of
\* a complete snapshot, there are never more stores than complete frames
\* with a diagram, and once everything has settled there are as many.
C18_StoreOncePerGeneration ==
    run["second"].pc = "idle" =>
        /\ Len(hook.stores) <= hook.completed
        /\ \A i \in DOMAIN hook.stores : hook.stores[i] \in SnapshotDiagrams
        /\ HookQuiet => Len(hook.stores) = hook.completed

\* C19: once a wiki task has ended in success and nothing of the instance
\* is pending any more, a cache store has been issued for the key.
C19_WikiSuccessIsStored ==
    \A i \in Instances :
        (/\ page[i].task = "success"
         /\ page[i].pc = "settled"
         /\ ~page[i].timer
         /\ page[i].inflight = 0) => "store" \in page[i].issued

\* C20: when the generate request fails before any read (not ok, no reader),
\* generateDiagram ends with status error and a message, no line was
\* processed and no reader lock is held.
C20_RequestFailureIsImmediateError ==
    [][(pc = "fetching" /\ pc' # "reading")
       => /\ state'.status = "error"
          /\ Truthy(state'.error)
          /\ loading' = FALSE
          /\ nLines' = 0
          /\ last' = NoSegment
          /\ ~locked']_vars

C20_Witness ==
    /\ pc = "caught"
    /\ nLines = 0
    /\ ~locked
    /\ state = ErrorState("Failed to generate diagram")

\* This step is the resolution of a status request of instance i: no other
\* step takes a request out of flight.
PollStep(i) == page'[i].inflight = page[i].inflight - 1

\* The instance p after one of its outstanding status requests resolved
\* to data.
Resolved(p, data) == Rendered(OnPollResponse([p EXCEPT !.inflight = @ - 1], data))

\* This step applies the status response data to instance i.
PollApplies(i, data) ==
    /\ PollStep(i)
    /\ page'[i] = Resolved(page[i], data)

\* C21: when the start request throws or answers with a non-success status,
\* the page ends with an error text and loading false, and no status
\* request was issued and no timer created.
C21_StartFailureIsErrorWithoutPolling ==
    [][\A i \in Instances :
          (/\ page[i].mounted
           /\ page[i].pc = "starting"
           /\ page'[i].pc = "settled"
           /\ page'[i].task = "none") =>
              /\ page'[i].error # ""
              /\ ~page'[i].isLoading
              /\ ~page'[i].timer
              /\ page'[i].inflight = 0
              /\ "status" \notin page'[i].issued]_vars

\* The status bodies that end the task: status success, or an error present.
TerminalBodies ==
    {data \in StatusBodies : data.status = "success" \/ Truthy(data.error)}

\* C22: whenever a status request is outstanding, its resolution with
\* status success or with an error present clears the interval and ends the
\* task; and once a task has ended no new status request is issued for it
\* and its timer stays cleared.
C22_TerminalPollStopsPolling ==
    /\ [](\A i \in Instances : \A data \in TerminalBodies :
             page[i].inflight > 0 =>
                 LET after == Resolved(page[i], data)
                 IN /\ ~after.timer
                    /\ after.task \in {"success", "error"}
                    /\ page[i].mounted => ~after.isLoading)
    /\ [][\A i \in Instances :
             page[i].task \in {"success", "error"} =>
                 /\ page'[i].inflight <= page[i].inflight
                 /\ ~page'[i].timer]_vars

\* A task ended in success while another status request was outstanding.
C22_Witness ==
    \E i \in Instances :
        page[i].task = "success" /\ ~page[i].timer /\ page[i].inflight > 0

\* C23: a status response with status error, with or without an error text,
\* stops the polling and ends loading.
C23_ErrorStatusIsTerminal ==
    [][\A i \in Instances : \A data \in StatusBodies :
          (data.status = "error" /\ page[i].mounted /\ PollApplies(i, data)) =>
              ~page'[i].timer /\ ~page'[i].isLoading]_vars

\* C24: an instance that has been unmounted has no live timer.
C24_TeardownCancelsTimer ==
    \A i \in Instances :
        (~page[i].mounted /\ page[i] # InitialPage) => ~page[i].timer

\* C25: once the task of an instance has ended or its interval has been
\* cleared, a status response that resolves afterwards changes neither the
\* message, nor the structure, nor the progress set, nor the loading flag.
C25_LateResolutionsAreDiscarded ==
    [][\A i \in Instances : \A data \in PollResponses :
          (/\ page[i].mounted
           /\ page[i].task # "none"
           /\ ~page[i].timer
           /\ PollApplies(i, data)) =>
              /\ page'[i].loadingMessage = page[i].loadingMessage
              /\ page'[i].structure = page[i].structure
              /\ page'[i].pagesInProgress = page[i].pagesInProgress
              /\ page'[i].isLoading = page[i].isLoading]_vars

\* C26: a status request that rejects clears the interval, and once the
\* interval of a started task is cleared no further status request is
\* issued and the interval is not set again.
C26_FailedPollIsNotRetried ==
    [][\A i \in Instances :
          /\ PollApplies(i, PollThrew) => ~page'[i].timer
          /\ (page[i].task # "none" /\ ~page[i].timer) =>
                /\ page'[i].inflight <= page[i].inflight
                /\ ~page'[i].timer]_vars

\* Polling was stopped by a rejected status request alone: no terminal
\* response was seen, nothing is outstanding, the interval is cleared.
C26_Witness ==
    \E i \in Instances :
        page[i].task = "running" /\ ~page[i].timer /\ page[i].inflight = 0

\* C27: after a status response that carries an error, or a status request
\* that rejected, the error of the page is non-empty.
C27_PollErrorIsVisible ==
    [][\A i \in Instances : \A data \in PollResponses :
          (/\ page[i].mounted
           /\ (Truthy(data.error) \/ data.status = "threw")
           /\ PollApplies(i, data)) =>
              page'[i].error # ""]_vars

\* The status bodies with status processing and a result.
ResultBodies ==
    {data \in StatusBodies : data.status = "processing" /\ Truthy(data.result)}

C29_ProgressShrinks ==
    [][\A i \in Instances :
          (/\ PollStep(i)
           /\ page[i].mounted
           /\ page[i].structure \in {"S1", "S2"}) =>
              page'[i].pagesInProgress \subseteq page[i].pagesInProgress]_vars

\* C30: after a status response with status success the interval is
\* cleared, loading has ended and the progress set is empty.
C30_SuccessEndsWithEmptyProgress ==
    [][\A i \in Instances : \A data \in StatusBodies :
          (data.status = "success" /\ page[i].mounted /\ PollApplies(i, data)) =>
              /\ ~page'[i].timer
              /\ ~page'[i].isLoading
              /\ page'[i].pagesInProgress = {}]_vars

\* C31: the reader lock is taken when the reader is acquired and released
\* only by the step in which processStream exits (end of body, return on a
\* frame with an error field, failed read); once generateDiagram has
\* settled the lock is not held and is never taken or released again.
C31_ReaderIsReleasedOnEveryExit ==
    [][/\ pc' \in {"settled", "caught"} => ~locked'
       /\ (locked /\ ~locked') =>
             (pc \in {"reading", "lines"} /\ pc' \in {"settled", "caught"})
       /\ (~locked /\ locked') => pc = "fetching"
       /\ pc \in {"settled", "caught"} => locked' = locked]_vars

\* The early exit: processStream returned on a frame with an error field.
C31_Witness ==
    /\ ~locked
    /\ pc = "settled"
    /\ Truthy(last.line.data.error)
    /\ state.status = "error"

\* C33: applying a frame with a `_sent` tag or a bare stage name (and no
\* error field) sets status and message to the frame's and leaves
\* explanation, mapping, diagram and error as they were.
C33_MessageFrameKeepsBuffers ==
    [][(/\ AppliedFrame
        /\ last'.line.data.status \in MessageTags
        /\ ~Truthy(last'.line.data.error))
       => /\ state'.status = last'.line.data.status
          /\ state'.message = last'.line.data.message
          /\ \A b \in Buffers : state'[b] = state[b]
          /\ state'.error = state.error]_vars

\* Two chunks, then a stage frame: the buffer is still "ab".
C33_Witness ==
    /\ nLines = 3
    /\ StartsWithData(last) /\ Parses(last)
    /\ last.line.data.status = "mapping_sent"
    /\ state.status = "mapping_sent"
    /\ state.message = "m"
    /\ state.explanation = "ab"

\* C32: whenever generateDiagram of a run ends, the error of getDiagram is
\* left as it was (its catch is not taken); a failed generate request
\* leaves status error with a message, and so does every end without a
\* read that changes the session (a failed read).
C32_GenerateDiagramNeverRejects ==
    [][\A r \in Runs :
          (run[r].pc \in {"fetching", "reading"} /\ run'[r].pc = "done") =>
              /\ hook'.error = hook.error
              /\ ~loading'
              /\ (run[r].pc = "fetching" \/ (hook'.reads = hook.reads /\ state' # state))
                    => (state'.status = "error" /\ Truthy(state'.error))]_vars

\* A read failed in a run whose lookup missed: error state, getDiagram's
\* error still empty.
C32_Witness ==
    /\ state = ErrorState("network error")
    /\ hook.error = ""
    /\ hook.reads > 0
    /\ \E r \in Runs : run[r].pc = "done" /\ run[r].generated = 1

\* C34: when the only run still reading is not the one that called
\* generateDiagram last, a read of its stream changes nothing of the session.
C34_SupersededStreamIsIgnored ==
    [][(/\ hook'.reads = hook.reads + 1
        /\ \E r \in Runs :
              /\ run[r].pc = "reading"
              /\ hook.latest \notin {r, "none"}
              /\ \A q \in Runs \ {r} : run[q].pc # "reading")
       => state' = state]_vars

\* C37: every run of getDiagram that was started reaches its end, and
\* loading is false when it does.
C37_GetDiagramEndsLoading ==
    \A r \in Runs : (run[r].pc = "lookup") ~> (run[r].pc = "done" /\ ~loading)

\* A run ended after its stream ended without a terminal frame.
C37_Witness ==
    \E r \in Runs :
        /\ run[r].pc = "done"
        /\ run[r].generated = 1
        /\ state.status = "started"
        /\ ~loading

\* C38: when no run of getDiagram is in progress, one has finished, the
\* effects have run, loading is false and neither error nor state.error is
\* set, the exposed diagram is non-empty.
C38_FinishedWithoutErrorHasDiagram ==
    (/\ \A r \in Runs : run[r].pc \in {"idle", "done"}
     /\ \E r \in Runs : run[r].pc = "done"
     /\ hook.deps = <<state.status, state.diagram>>
     /\ ~loading
     /\ hook.error = ""
     /\ ~Truthy(state.error)) => hook.diagram # ""

\* C39: whenever parseRepoInput returns a result that is not null, owner
\* and repo of the result are non-empty.
C39_ParsedOwnerAndRepoNonEmpty ==
    (parsed.done /\ ~parsed.null) => (parsed.owner # <<>> /\ parsed.repo # <<>>)

\* C40: once every submitted question of the Ask component has settled
\* (its request failed or its response stream ended), isLoading is false.
C40_AskLoadingEnds ==
    (/\ \A a \in Asks : ask.run[a].pc \in {"idle", "done"}
     /\ \E a \in Asks : ask.run[a].pc = "done") => ~ask.isLoading

\* C35: at most one status request of an instance of the wiki page is
\* outstanding at any time.
C35_OneStatusRequestOutstanding ==
    \A i \in Instances : page[i].inflight <= 1

\* C36: an instance of the wiki page that is mounted with no start request
\* in flight, no status request in flight and no live timer is not loading.
C36_NeverStuckLoading ==
    \A i \in Instances :
        (/\ page[i].mounted
         /\ page[i].pc = "settled"
         /\ page[i].inflight = 0
         /\ ~page[i].timer) => ~page[i].isLoading

====
